---- MODULE Spec2Model ----
(***************************************************************************)
(* pg_wrapper: ConnectionPool (get_connection / return_connection under    *)
(* one mutex, concurrent callers) and Transaction (commit / abort / exec / *)
(* destructor over a pqxx::work handle).                                   *)
(*                                                                         *)
(* Two specifications share the module:                                    *)
(*   Spec     - the connection pool used by concurrent caller threads;     *)
(*   SpecTxn  - the Transaction objects begun on one Database.             *)
(***************************************************************************)
EXTENDS Integers, Naturals, Sequences, FiniteSets, TLC

(* ------------------------------ bounds --------------------------------- *)
\* capacity N handed to the ConnectionPool constructor
MaxConnections == 2
\* number of concurrent caller threads
NumThreads == 2
\* Database objects that may exist at the same time
MaxConns == 3
\* how far below zero the callers may drive the unsigned live counter
MaxUnderflow == 1
\* Database objects constructed by the callers themselves at the same time
MaxForeign == 1
\* columns of a Row
MaxCols == 2
\* rows of a Result
MaxRows == 2
\* Transaction objects begun during one run
MaxTxns == 2
\* calls made on pqxx::work handles during one run
MaxCalls == 2

(* ----------------------------- constants ------------------------------- *)
\* the largest size_t value; TLC's largest integer stands for 2^64 - 1
SIZE_MAX == 2147483647
\* the null std::unique_ptr<Database>
Null == 0
\* the mutex is held by no thread
NoThread == 0

Threads == 1..NumThreads
ConnIds == 1..MaxConns
TxnIds  == 1..MaxTxns

VARIABLES
    \* ---- ConnectionPool (pg_wrapper.h:229-234)
    _pool,                \* idle store: sequence of connection ids, back = last
    _currentConnections,  \* size_t live counter
    _mutex,               \* thread that holds the pool mutex, or NoThread
    \* ---- Database objects and the caller threads
    conn,                 \* conn[c]: "none" (no such object) | "open" | "closed" |
                          \* "leaked" (destroyed by its holder while on lease)
    pc,                   \* pc[t]: position of thread t inside a pool call
    arg,                  \* arg[t]: the unique_ptr passed to return_connection
    held,                 \* held[t]: connections thread t has on lease
    ret,                  \* [t, kind]: the pool call completed last and its outcome
    foreign,              \* the Database objects constructed by callers, not by the pool
    \* ---- Transaction objects (pg_wrapper.h:155-157) on one Database
    _conn,                \* Database::_conn: "open" | "null"
    txn,                  \* txn[i]: [st, _committed, calls]
    last,                 \* the last Database/Transaction call and its exception
    implicit,             \* the Transaction local to the last Database::exec call
    \* ---- one Row (pg_wrapper.h:39-71)
    _row,                 \* Row::_row: the fields of the pqxx::row, column 0 first
    outs,                 \* outs[fn]: the last call of fn on the Row and its outcome
    \* ---- one Result (pg_wrapper.h:74-124)
    _result,              \* Result::_result: the rows of the pqxx::result, row 0 first
    _itr,                 \* the Result::iterator of the running pass: a position, or NoItr
    yielded,              \* the rows the running pass has produced so far
    rcall,                \* the last at / operator[] / front / front_optional call
    vec                   \* the last to_vector call: converter, the vector, converter calls

poolVars == <<_pool, _currentConnections, _mutex, conn, pc, arg, held, ret, foreign>>
txnVars  == <<_conn, txn, last, implicit>>
vars     == <<_pool, _currentConnections, _mutex, conn, pc, arg, held, ret, foreign,
              _conn, txn, last, implicit, _row, outs,
              _result, _itr, yielded, rcall, vec>>
resVars  == <<_result, _itr, yielded, rcall, vec>>
rowVars  == <<_row, outs>>

(* ------------------------- size_t arithmetic --------------------------- *)
\* ++x on a size_t
Incr(x) == IF x = SIZE_MAX THEN 0 ELSE x + 1
\* --x on a size_t: wraps to SIZE_MAX at 0
Decr(x) == IF x = 0 THEN SIZE_MAX ELSE x - 1

\* outcome of the pool call completed last, by thread t: kind is "conn"
\* (get_connection returned a connection), "nullptr" (pool exhausted),
\* "ConnectionError" (the exception that left get_connection), or the branch
\* a completed return_connection took: "dropped_dead" (broken connection),
\* "pooled" (pushed into the idle store), "dropped_full" (idle store full)
NoResult == [t |-> NoThread, kind |-> "none"]

\* Database::is_open(): the handle exists and reports live
is_open(c) == c # Null /\ conn[c] = "open"

\* the constructor parameter _maxConnections
_maxConnections == MaxConnections

\* the identity of a newly constructed Database: the first one not in use
FreshConn == CHOOSE c \in ConnIds : conn[c] = "none" /\ \A d \in ConnIds : conn[d] = "none" => c <= d

(* --------------------------------- Row --------------------------------- *)
\* a field of a pqxx::row: SQL NULL, text that converts to T, text that does not
Fields == {"null", "good", "bad"}
\* the rows of up to MaxCols columns; _row[k + 1] is the field of column k
RECURSIVE RowsOfLen(_)
RowsOfLen(n) == IF n = 0 THEN {<<>>} ELSE {Append(r, f) : r \in RowsOfLen(n - 1), f \in Fields}
Rows == UNION {RowsOfLen(n) : n \in 0..MaxCols}

\* the arguments tried: the indices -1 .. MaxCols, and the column names, where
\* name k is the name of column k (names from Len(_row) on are unknown)
Indices == (-1)..MaxCols
Names == 0..MaxCols

RowFns == {"get", "get_optional", "is_null"}
NoCall == [by |-> "none", col |-> 0, out |-> "none"]

\* Row::size()
size(r) == Len(r)

\* pqxx::field::as<T>() as the wrapper uses it, with no catch around it: the
\* value, or the exception of libpqxx for text that is not a T and for NULL
as(f) == IF f = "good" THEN "value" ELSE "pqxx::conversion_error"

\* _row[col] for an index below 0 is outside the row: undefined behaviour
BadRead == {"crash", "garbage"}

\* the test col >= _row.size() compares the int col with the size type of
\* pqxx::row: unsigned, -1 converts to a huge value and the test is true;
\* signed, the test is false for -1
Beyond(r, col) ==
    IF col >= 0 THEN {col >= size(r)} ELSE {TRUE, FALSE}

\* Row::get<T>(int col): the possible outcomes
get(r, col) ==
    UNION {IF b THEN {"std::out_of_range"}
           ELSE IF col < 0 THEN BadRead
           ELSE {as(r[col + 1])} : b \in Beyond(r, col)}

\* Row::get<T>(const std::string& colName): _row[colName] raises inside
\* libpqxx for an unknown name
get_name(r, colName) ==
    IF colName >= size(r) THEN {"pqxx::argument_error"} ELSE {as(r[colName + 1])}

\* get_optional without the test for NULL
get_optional_NoNullTest(r, col) ==
    UNION {IF b THEN {"std::out_of_range"}
           ELSE IF col < 0 THEN BadRead
           ELSE {as(r[col + 1])} : b \in Beyond(r, col)}

\* Row::get_optional<T>(int col)
get_optional(r, col) ==
    UNION {IF b THEN {"std::out_of_range"}
           ELSE IF col < 0 THEN BadRead
           ELSE IF r[col + 1] = "null" THEN {"nullopt"}
           ELSE {as(r[col + 1])} : b \in Beyond(r, col)}

\* Row::get_optional<T>(const std::string& colName)
get_optional_name(r, colName) ==
    IF colName >= size(r) THEN {"pqxx::argument_error"}
    ELSE IF r[colName + 1] = "null" THEN {"nullopt"}
    ELSE {as(r[colName + 1])}

\* Row::is_null(int col): col < _row.size() && _row[col].is_null()
is_null(r, col) ==
    UNION {IF b THEN {"false"}
           ELSE IF col < 0 THEN BadRead \cup {"true", "false"}
           ELSE {IF r[col + 1] = "null" THEN "true" ELSE "false"} : b \in Beyond(r, col)}

\* Row::is_null(const std::string& colName)
is_null_name(r, colName) ==
    IF colName >= size(r) THEN {"pqxx::argument_error"}
    ELSE {IF r[colName + 1] = "null" THEN "true" ELSE "false"}

(* -------------------------------- Result ------------------------------- *)
\* the contents a row of a pqxx::result can have
RowVals == {"a", "b"}
\* the results of up to MaxRows rows; _result[k + 1] is row k in server order
RECURSIVE ResultsOfLen(_)
ResultsOfLen(n) ==
    IF n = 0 THEN {<<>>} ELSE {Append(r, v) : r \in ResultsOfLen(n - 1), v \in RowVals}
Results == UNION {ResultsOfLen(n) : n \in 0..MaxRows}

\* the row numbers tried (size_t: none below 0)
RowNums == 0..(MaxRows + 1)

\* no iterator exists
NoItr == -1
NoRCall == [fn |-> "none", i |-> 0, out |-> [kind |-> "none"]]
NoVec == [conv |-> "none", out |-> <<>>, calls |-> <<>>]

\* Row(_result[k]): the Row over row k of the result
RowAt(res, k) == [kind |-> "row", at |-> k, val |-> res[k + 1]]

\* Result::size()
result_size(res) == Len(res)
\* Result::empty()
empty(res) == Len(res) = 0

\* Result::operator[] with a range test that lets rowNum = size() through
subscript_OffByOne(res, rowNum) ==
    IF rowNum > result_size(res) THEN [kind |-> "std::out_of_range"]
    ELSE IF rowNum = result_size(res) THEN [kind |-> "garbage"]
    ELSE RowAt(res, rowNum)

\* Result::operator[](size_t rowNum)
subscript(res, rowNum) ==
    IF rowNum >= result_size(res) THEN [kind |-> "std::out_of_range"]
    ELSE RowAt(res, rowNum)

\* Result::at(size_t rowNum): return (*this)[rowNum]
at(res, rowNum) == subscript(res, rowNum)

\* Result::front: std::runtime_error("Result is empty") when empty
front(res) ==
    IF empty(res) THEN [kind |-> "std::runtime_error"] ELSE RowAt(res, 0)

\* front_optional returning the last row
front_optional_Back(res) ==
    IF empty(res) THEN [kind |-> "nullopt"] ELSE RowAt(res, result_size(res) - 1)

\* Result::front_optional
front_optional(res) ==
    IF empty(res) THEN [kind |-> "nullopt"] ELSE RowAt(res, 0)

\* Result::begin() and Result::end() as positions
begin(res) == 0
end(res) == result_size(res)

\* the converters handed to to_vector
Converters == {"same", "other"}
converter(c, row) ==
    IF c = "same" THEN row.val ELSE IF row.val = "a" THEN "b" ELSE "a"

\* Result::to_vector: for (const auto& row : *this) vec.push_back(converter(row))
\* from iterator position it on, v being the vector and the converter calls
\* so far
RECURSIVE to_vector(_, _, _, _)
to_vector(res, c, it, v) ==
    IF it = end(res) THEN v
    ELSE to_vector(res, c, it + 1,
                   [v EXCEPT !.out = Append(@, converter(c, RowAt(res, it))),
                             !.calls = Append(@, it)])

Init ==
    /\ _pool = <<>>
    /\ _currentConnections = 0
    /\ _mutex = NoThread
    /\ conn = [c \in ConnIds |-> "none"]
    /\ pc = [t \in Threads |-> "idle"]
    /\ arg = [t \in Threads |-> Null]
    /\ held = [t \in Threads |-> {}]
    /\ ret = NoResult
    /\ foreign = {}
    /\ _conn = "open"
    /\ txn = [i \in TxnIds |-> [st |-> "none", _committed |-> FALSE, calls |-> <<>>]]
    /\ last = [i |-> 0, fn |-> "none", raised |-> "none"]
    /\ implicit = [st |-> "none", _committed |-> FALSE, calls |-> <<>>]
    /\ _row = <<>>
    /\ outs = [fn \in RowFns |-> NoCall]
    /\ _result = <<>>
    /\ _itr = NoItr
    /\ yielded = <<>>
    /\ rcall = NoRCall
    /\ vec = NoVec

(* ------------------- ConnectionPool::get_connection -------------------- *)
\* a caller enters get_connection: std::lock_guard lockGuard(_mutex) is its
\* first statement, the caller goes on when the mutex is free
GetLock(t) ==
    /\ pc[t] = "idle"
    /\ _mutex = NoThread
    /\ _mutex' = t
    /\ pc' = [pc EXCEPT ![t] = "get_locked"]
    /\ UNCHANGED <<_pool, _currentConnections, conn, arg, held, ret>>
    /\ UNCHANGED foreign
    /\ UNCHANGED txnVars
    /\ UNCHANGED rowVars
    /\ UNCHANGED resVars

\* GetBody handing out the idle connection without removing it from the store
GetBody_KeepsIdle(t) ==
    /\ pc[t] = "get_locked"
    /\ _mutex = t
    /\ IF _pool # <<>>
       THEN /\ held' = [held EXCEPT ![t] = @ \cup {_pool[Len(_pool)]}]
            /\ ret' = [t |-> t, kind |-> "conn"]
            /\ _mutex' = NoThread
            /\ pc' = [pc EXCEPT ![t] = "idle"]
            /\ UNCHANGED <<_pool, _currentConnections>>
       ELSE IF _currentConnections < _maxConnections
       THEN /\ _currentConnections' = Incr(_currentConnections)
            /\ pc' = [pc EXCEPT ![t] = "get_construct"]
            /\ UNCHANGED <<_pool, _mutex, held, ret>>
       ELSE /\ ret' = [t |-> t, kind |-> "nullptr"]
            /\ _mutex' = NoThread
            /\ pc' = [pc EXCEPT ![t] = "idle"]
            /\ UNCHANGED <<_pool, _currentConnections, held>>
    /\ UNCHANGED <<conn, arg>>
    /\ UNCHANGED foreign
    /\ UNCHANGED txnVars
    /\ UNCHANGED rowVars
    /\ UNCHANGED resVars

\* GetBody with a capacity test that lets one connection too many through
GetBody_NoLimit(t) ==
    /\ pc[t] = "get_locked"
    /\ _mutex = t
    /\ IF _pool # <<>>
       THEN /\ held' = [held EXCEPT ![t] = @ \cup {_pool[Len(_pool)]}]
            /\ ret' = [t |-> t, kind |-> "conn"]
            /\ _pool' = SubSeq(_pool, 1, Len(_pool) - 1)
            /\ _mutex' = NoThread
            /\ pc' = [pc EXCEPT ![t] = "idle"]
            /\ UNCHANGED _currentConnections
       ELSE IF _currentConnections <= _maxConnections
       THEN /\ _currentConnections' = Incr(_currentConnections)
            /\ pc' = [pc EXCEPT ![t] = "get_construct"]
            /\ UNCHANGED <<_pool, _mutex, held, ret>>
       ELSE /\ ret' = [t |-> t, kind |-> "nullptr"]
            /\ _mutex' = NoThread
            /\ pc' = [pc EXCEPT ![t] = "idle"]
            /\ UNCHANGED <<_pool, _currentConnections, held>>
    /\ UNCHANGED <<conn, arg>>
    /\ UNCHANGED foreign
    /\ UNCHANGED txnVars
    /\ UNCHANGED rowVars
    /\ UNCHANGED resVars

\* GetBody taking the connection at the front of the idle store
GetBody_FIFO(t) ==
    /\ pc[t] = "get_locked"
    /\ _mutex = t
    /\ IF _pool # <<>>
       THEN /\ held' = [held EXCEPT ![t] = @ \cup {_pool[1]}]
            /\ ret' = [t |-> t, kind |-> "conn"]
            /\ _pool' = Tail(_pool)
            /\ _mutex' = NoThread
            /\ pc' = [pc EXCEPT ![t] = "idle"]
            /\ UNCHANGED _currentConnections
       ELSE IF _currentConnections < _maxConnections
       THEN /\ _currentConnections' = Incr(_currentConnections)
            /\ pc' = [pc EXCEPT ![t] = "get_construct"]
            /\ UNCHANGED <<_pool, _mutex, held, ret>>
       ELSE /\ ret' = [t |-> t, kind |-> "nullptr"]
            /\ _mutex' = NoThread
            /\ pc' = [pc EXCEPT ![t] = "idle"]
            /\ UNCHANGED <<_pool, _currentConnections, held>>
    /\ UNCHANGED <<conn, arg>>
    /\ UNCHANGED foreign
    /\ UNCHANGED txnVars
    /\ UNCHANGED rowVars
    /\ UNCHANGED resVars

\* the body under the lock: pop an idle connection, or reserve a slot for a
\* new one, or report exhaustion
GetBody(t) ==
    /\ pc[t] = "get_locked"
    /\ _mutex = t
    /\ IF _pool # <<>>
       THEN /\ held' = [held EXCEPT ![t] = @ \cup {_pool[Len(_pool)]}]
            /\ ret' = [t |-> t, kind |-> "conn"]
            /\ _pool' = SubSeq(_pool, 1, Len(_pool) - 1)
            /\ _mutex' = NoThread
            /\ pc' = [pc EXCEPT ![t] = "idle"]
            /\ UNCHANGED _currentConnections
       ELSE IF _currentConnections < _maxConnections
       THEN /\ _currentConnections' = Incr(_currentConnections)
            /\ pc' = [pc EXCEPT ![t] = "get_construct"]
            /\ UNCHANGED <<_pool, _mutex, held, ret>>
       ELSE /\ ret' = [t |-> t, kind |-> "nullptr"]
            /\ _mutex' = NoThread
            /\ pc' = [pc EXCEPT ![t] = "idle"]
            /\ UNCHANGED <<_pool, _currentConnections, held>>
    /\ UNCHANGED <<conn, arg>>
    /\ UNCHANGED foreign
    /\ UNCHANGED txnVars
    /\ UNCHANGED rowVars
    /\ UNCHANGED resVars

\* GetConstruct with a mutex that is locked and unlocked by hand: the unlock
\* is skipped when the Database constructor throws
GetConstruct_KeepsMutexOnThrow(t) ==
    /\ pc[t] = "get_construct"
    /\ _mutex = t
    /\ \E ok \in BOOLEAN :
         IF ok
         THEN /\ \E c \in ConnIds : conn[c] = "none"
              /\ conn' = [conn EXCEPT ![FreshConn] = "open"]
              /\ held' = [held EXCEPT ![t] = @ \cup {FreshConn}]
              /\ ret' = [t |-> t, kind |-> "conn"]
              /\ _mutex' = NoThread
         ELSE /\ ret' = [t |-> t, kind |-> "ConnectionError"]
              /\ UNCHANGED <<conn, held, _mutex>>
    /\ pc' = [pc EXCEPT ![t] = "idle"]
    /\ UNCHANGED <<_pool, _currentConnections, arg>>
    /\ UNCHANGED foreign
    /\ UNCHANGED txnVars
    /\ UNCHANGED rowVars
    /\ UNCHANGED resVars

\* std::make_unique<Database>(_connectionString), still under the lock: the
\* Database constructor connects, or throws ConnectionError; either way the
\* lock_guard releases the mutex when get_connection is left
GetConstruct(t) ==
    /\ pc[t] = "get_construct"
    /\ _mutex = t
    /\ \E ok \in BOOLEAN :
         IF ok
         THEN /\ \E c \in ConnIds : conn[c] = "none"
              /\ conn' = [conn EXCEPT ![FreshConn] = "open"]
              /\ held' = [held EXCEPT ![t] = @ \cup {FreshConn}]
              /\ ret' = [t |-> t, kind |-> "conn"]
         ELSE /\ ret' = [t |-> t, kind |-> "ConnectionError"]
              /\ UNCHANGED <<conn, held>>
    /\ _mutex' = NoThread
    /\ pc' = [pc EXCEPT ![t] = "idle"]
    /\ UNCHANGED <<_pool, _currentConnections, arg>>
    /\ UNCHANGED foreign
    /\ UNCHANGED txnVars
    /\ UNCHANGED rowVars
    /\ UNCHANGED resVars

(* ------------------ ConnectionPool::return_connection ------------------ *)
\* the callers stop handing in dead connections once the counter has wrapped
\* MaxUnderflow values below zero (a bound of the exploration, not of the code)
UnderflowAllowed ==
    \/ _currentConnections <= _maxConnections
    \/ _currentConnections > SIZE_MAX - MaxUnderflow

\* a caller passes c (a connection it has on lease, or the null pointer) to
\* return_connection: the test !conn || !conn->is_open() selects the branch,
\* whose first statement is std::lock_guard lockGuard(_mutex); the caller goes
\* on when the mutex is free
ReturnCall(t, c) ==
    /\ pc[t] = "idle"
    /\ c \in held[t] \cup {Null}
    /\ UnderflowAllowed
    /\ _mutex = NoThread
    /\ _mutex' = t
    /\ held' = [held EXCEPT ![t] = @ \ {c}]
    /\ arg' = [arg EXCEPT ![t] = c]
    /\ pc' = [pc EXCEPT ![t] = IF ~is_open(c) THEN "ret_dead_locked" ELSE "ret_live_locked"]
    /\ UNCHANGED <<_pool, _currentConnections, conn, ret>>
    /\ UNCHANGED foreign
    /\ UNCHANGED txnVars
    /\ UNCHANGED rowVars
    /\ UNCHANGED resVars

\* ReturnDeadBody as it would be if the dead connection were re-pooled like
\* an open one instead of being dropped
ReturnDeadBody_Repool(t) ==
    /\ pc[t] = "ret_dead_locked"
    /\ _mutex = t
    /\ IF arg[t] # Null /\ Len(_pool) < _maxConnections
       THEN /\ _pool' = Append(_pool, arg[t])
            /\ ret' = [t |-> t, kind |-> "pooled"]
            /\ UNCHANGED <<_currentConnections, conn>>
       ELSE /\ _currentConnections' = Decr(_currentConnections)
            /\ conn' = IF arg[t] # Null THEN [conn EXCEPT ![arg[t]] = "none"] ELSE conn
            /\ ret' = [t |-> t, kind |-> "dropped_dead"]
            /\ UNCHANGED _pool
    /\ _mutex' = NoThread
    /\ arg' = [arg EXCEPT ![t] = Null]
    /\ pc' = [pc EXCEPT ![t] = "idle"]
    /\ UNCHANGED held
    /\ foreign' = {c \in foreign : conn'[c] # "none"}
    /\ UNCHANGED txnVars
    /\ UNCHANGED rowVars
    /\ UNCHANGED resVars

\* "Drop broken connection": --_currentConnections; return;  the mutex is
\* released and the parameter (when not null) destroys its Database, whose
\* identity is free again
ReturnDeadBody(t) ==
    /\ pc[t] = "ret_dead_locked"
    /\ _mutex = t
    /\ _currentConnections' = Decr(_currentConnections)
    /\ _mutex' = NoThread
    /\ conn' = IF arg[t] # Null THEN [conn EXCEPT ![arg[t]] = "none"] ELSE conn
    /\ arg' = [arg EXCEPT ![t] = Null]
    /\ pc' = [pc EXCEPT ![t] = "idle"]
    /\ ret' = [t |-> t, kind |-> "dropped_dead"]
    /\ UNCHANGED <<_pool, held>>
    /\ foreign' = {c \in foreign : conn'[c] # "none"}
    /\ UNCHANGED txnVars
    /\ UNCHANGED rowVars
    /\ UNCHANGED resVars

\* ReturnLiveBody without the test for room in the idle store
ReturnLiveBody_NoRoomTest(t) ==
    /\ pc[t] = "ret_live_locked"
    /\ _mutex = t
    /\ _pool' = Append(_pool, arg[t])
    /\ ret' = [t |-> t, kind |-> "pooled"]
    /\ UNCHANGED <<_currentConnections, conn>>
    /\ _mutex' = NoThread
    /\ arg' = [arg EXCEPT ![t] = Null]
    /\ pc' = [pc EXCEPT ![t] = "idle"]
    /\ UNCHANGED held
    /\ foreign' = {c \in foreign : conn'[c] # "none"}
    /\ UNCHANGED txnVars
    /\ UNCHANGED rowVars
    /\ UNCHANGED resVars

\* push_back into the idle store when it has room, else "Pool full": drop the
\* connection and decrement
ReturnLiveBody(t) ==
    /\ pc[t] = "ret_live_locked"
    /\ _mutex = t
    /\ IF Len(_pool) < _maxConnections
       THEN /\ _pool' = Append(_pool, arg[t])
            /\ ret' = [t |-> t, kind |-> "pooled"]
            /\ UNCHANGED <<_currentConnections, conn>>
       ELSE /\ _currentConnections' = Decr(_currentConnections)
            /\ conn' = [conn EXCEPT ![arg[t]] = "none"]
            /\ ret' = [t |-> t, kind |-> "dropped_full"]
            /\ UNCHANGED _pool
    /\ _mutex' = NoThread
    /\ arg' = [arg EXCEPT ![t] = Null]
    /\ pc' = [pc EXCEPT ![t] = "idle"]
    /\ UNCHANGED held
    /\ foreign' = {c \in foreign : conn'[c] # "none"}
    /\ UNCHANGED txnVars
    /\ UNCHANGED rowVars
    /\ UNCHANGED resVars

(* --------------------------- Database::close --------------------------- *)
\* a caller closes a connection it has on lease: the handle is released and
\* is_open() is false from then on
CloseLeased(t, c) ==
    /\ pc[t] = "idle"
    /\ c \in held[t]
    /\ conn[c] = "open"
    /\ conn' = [conn EXCEPT ![c] = "closed"]
    /\ UNCHANGED <<_pool, _currentConnections, _mutex, pc, arg, held, ret>>
    /\ UNCHANGED foreign
    /\ UNCHANGED txnVars
    /\ UNCHANGED rowVars
    /\ UNCHANGED resVars

(* ------------------- a Database made by the caller --------------------- *)
\* a caller constructs a Database of its own (std::make_unique<Database>) and
\* passes it, open, to return_connection: the call takes the branch of an open
\* connection; at most MaxForeign such objects exist at a time
ReturnOwn(t) ==
    /\ pc[t] = "idle"
    /\ Cardinality(foreign) < MaxForeign
    /\ \E c \in ConnIds : conn[c] = "none"
    /\ UnderflowAllowed
    /\ _mutex = NoThread
    /\ _mutex' = t
    /\ conn' = [conn EXCEPT ![FreshConn] = "open"]
    /\ foreign' = foreign \cup {FreshConn}
    /\ arg' = [arg EXCEPT ![t] = FreshConn]
    /\ pc' = [pc EXCEPT ![t] = "ret_live_locked"]
    /\ UNCHANGED <<_pool, _currentConnections, held, ret>>
    /\ UNCHANGED txnVars
    /\ UNCHANGED rowVars
    /\ UNCHANGED resVars

Next ==
    \E t \in Threads :
        \/ GetLock(t)
        \/ GetBody(t)
        \/ GetConstruct(t)
        \/ \E c \in ConnIds \cup {Null} : ReturnCall(t, c)
        \/ ReturnDeadBody(t)
        \/ ReturnLiveBody(t)
        \/ \E c \in ConnIds : CloseLeased(t, c)

Spec == Init /\ [][Next]_vars

\* the pool with callers that also return Database objects of their own
NextOwn ==
    \E t \in Threads :
        \/ GetLock(t)
        \/ GetBody(t)
        \/ GetConstruct(t)
        \/ \E c \in ConnIds \cup {Null} : ReturnCall(t, c)
        \/ ReturnDeadBody(t)
        \/ ReturnLiveBody(t)
        \/ ReturnOwn(t)

SpecOwn == Init /\ [][NextOwn]_vars

\* the pool with callers that keep to the protocol: they return only
\* connections they have on lease (open, or closed by them), never null,
\* never one of their own, and leak none
NextKept ==
    \E t \in Threads :
        \/ GetLock(t)
        \/ GetBody(t)
        \/ GetConstruct(t)
        \/ \E c \in ConnIds : ReturnCall(t, c)
        \/ ReturnDeadBody(t)
        \/ ReturnLiveBody(t)
        \/ \E c \in ConnIds : CloseLeased(t, c)

SpecKept == Init /\ [][NextKept]_vars

(* ---------------------- callers waiting for the mutex ------------------ *)
\* a caller enters get_connection and reaches std::lock_guard lockGuard(_mutex)
GetEnter(t) ==
    /\ pc[t] = "idle"
    /\ pc' = [pc EXCEPT ![t] = "get_wait"]
    /\ UNCHANGED <<_pool, _currentConnections, _mutex, conn, arg, held, ret>>
    /\ UNCHANGED foreign
    /\ UNCHANGED txnVars
    /\ UNCHANGED rowVars
    /\ UNCHANGED resVars

\* the lock_guard of get_connection gets the mutex
GetAcquire(t) ==
    /\ pc[t] = "get_wait"
    /\ _mutex = NoThread
    /\ _mutex' = t
    /\ pc' = [pc EXCEPT ![t] = "get_locked"]
    /\ UNCHANGED <<_pool, _currentConnections, conn, arg, held, ret>>
    /\ UNCHANGED foreign
    /\ UNCHANGED txnVars
    /\ UNCHANGED rowVars
    /\ UNCHANGED resVars

\* a caller passes c (a connection it has on lease, or the null pointer) to
\* return_connection and reaches the lock_guard of the branch that the test
\* !conn || !conn->is_open() selects
ReturnEnter(t, c) ==
    /\ pc[t] = "idle"
    /\ c \in held[t] \cup {Null}
    /\ UnderflowAllowed
    /\ held' = [held EXCEPT ![t] = @ \ {c}]
    /\ arg' = [arg EXCEPT ![t] = c]
    /\ pc' = [pc EXCEPT ![t] = "ret_wait"]
    /\ UNCHANGED <<_pool, _currentConnections, _mutex, conn, ret>>
    /\ UNCHANGED foreign
    /\ UNCHANGED txnVars
    /\ UNCHANGED rowVars
    /\ UNCHANGED resVars

\* a caller closes a connection it has on lease (Database::close) and passes
\* it to return_connection, where !conn->is_open() selects the branch of a
\* broken connection
ReturnEnterClosed(t, c) ==
    /\ pc[t] = "idle"
    /\ c \in held[t]
    /\ conn[c] = "open"
    /\ UnderflowAllowed
    /\ conn' = [conn EXCEPT ![c] = "closed"]
    /\ held' = [held EXCEPT ![t] = @ \ {c}]
    /\ arg' = [arg EXCEPT ![t] = c]
    /\ pc' = [pc EXCEPT ![t] = "ret_wait"]
    /\ UNCHANGED <<_pool, _currentConnections, _mutex, ret>>
    /\ UNCHANGED foreign
    /\ UNCHANGED txnVars
    /\ UNCHANGED rowVars
    /\ UNCHANGED resVars

\* the lock_guard of return_connection gets the mutex
ReturnAcquire(t) ==
    /\ pc[t] = "ret_wait"
    /\ _mutex = NoThread
    /\ _mutex' = t
    /\ pc' = [pc EXCEPT ![t] = IF ~is_open(arg[t]) THEN "ret_dead_locked" ELSE "ret_live_locked"]
    /\ UNCHANGED <<_pool, _currentConnections, conn, arg, held, ret>>
    /\ UNCHANGED foreign
    /\ UNCHANGED txnVars
    /\ UNCHANGED rowVars
    /\ UNCHANGED resVars

\* the pool with the wait for the mutex as a step of its own; the callers
\* return the connections they have on lease, open or closed by them
NextLive ==
    \E t \in Threads :
        \/ GetEnter(t)
        \/ GetAcquire(t)
        \/ GetBody(t)
        \/ GetConstruct(t)
        \/ \E c \in ConnIds : ReturnEnter(t, c)
        \/ ReturnAcquire(t)
        \/ ReturnDeadBody(t)
        \/ ReturnLiveBody(t)
        \/ \E c \in ConnIds : ReturnEnterClosed(t, c)

\* fair scheduling: a thread that can take its next step inside the pool
\* takes it; a thread waiting for the mutex gets it if it is free again and
\* again
SpecLive ==
    /\ Init
    /\ [][NextLive]_vars
    /\ \A t \in Threads :
           /\ WF_vars(GetBody(t) \/ GetConstruct(t) \/ ReturnDeadBody(t) \/ ReturnLiveBody(t))
           /\ SF_vars(GetAcquire(t) \/ ReturnAcquire(t))

(* ------------------ sessions that die in the idle store ---------------- *)
\* the backend session of an idle connection ends (server restart, timeout,
\* network): Database::is_open() of that object is false from then on
IdleDies(c) ==
    /\ c \in {_pool[k] : k \in 1..Len(_pool)}
    /\ conn[c] = "open"
    /\ conn' = [conn EXCEPT ![c] = "closed"]
    /\ UNCHANGED <<_pool, _currentConnections, _mutex, pc, arg, held, ret>>
    /\ UNCHANGED foreign
    /\ UNCHANGED txnVars
    /\ UNCHANGED rowVars
    /\ UNCHANGED resVars

\* the pool with callers that return what they were handed, and sessions that
\* may die while idle
NextDie ==
    \/ \E t \in Threads :
        \/ GetLock(t)
        \/ GetBody(t)
        \/ GetConstruct(t)
        \/ \E c \in ConnIds : ReturnCall(t, c)
        \/ ReturnDeadBody(t)
        \/ ReturnLiveBody(t)
    \/ \E c \in ConnIds : IdleDies(c)

SpecDie == Init /\ [][NextDie]_vars

(* ------------------- leaked leases and pool teardown ------------------- *)
\* the holder of a leased connection lets the unique_ptr go out of scope: the
\* Database is destroyed without a call on the pool
DropLeased(t, c) ==
    /\ pc[t] = "idle"
    /\ c \in held[t]
    /\ held' = [held EXCEPT ![t] = @ \ {c}]
    /\ conn' = [conn EXCEPT ![c] = "leaked"]
    /\ foreign' = foreign \ {c}
    /\ UNCHANGED <<_pool, _currentConnections, _mutex, pc, arg, ret>>
    /\ UNCHANGED txnVars
    /\ UNCHANGED rowVars
    /\ UNCHANGED resVars

\* the pool exists: its destructor has not run
Alive == ret.kind # "pool_destroyed"

\* the idle Database objects
Idle == {_pool[k] : k \in 1..Len(_pool)}

\* the destructor with a clear() that also reaches the connections on lease
PoolDtor_ReachesLeases(t) ==
    /\ Alive
    /\ pc[t] = "idle"
    /\ _mutex = NoThread
    /\ _pool' = <<>>
    /\ conn' = [c \in ConnIds |-> IF conn[c] \in {"open", "closed"} THEN "none" ELSE conn[c]]
    /\ held' = [u \in Threads |-> {}]
    /\ foreign' = {}
    /\ ret' = [t |-> t, kind |-> "pool_destroyed"]
    /\ UNCHANGED <<_currentConnections, _mutex, pc, arg>>
    /\ UNCHANGED txnVars
    /\ UNCHANGED rowVars
    /\ UNCHANGED resVars

\* ConnectionPool::~ConnectionPool, run by thread t while no call is inside
\* the pool: lock, _pool.clear() destroys the idle Database objects, unlock
PoolDtor(t) ==
    /\ Alive
    /\ pc[t] = "idle"
    /\ _mutex = NoThread
    /\ _pool' = <<>>
    /\ conn' = [c \in ConnIds |-> IF c \in Idle THEN "none" ELSE conn[c]]
    /\ foreign' = foreign \ Idle
    /\ ret' = [t |-> t, kind |-> "pool_destroyed"]
    /\ UNCHANGED <<_currentConnections, _mutex, pc, arg, held>>
    /\ UNCHANGED txnVars
    /\ UNCHANGED rowVars
    /\ UNCHANGED resVars

\* the pool over its whole life, with holders that return their open leases
\* or leak them; no call enters the pool after its destructor
NextLife ==
    \E t \in Threads :
        \/ Alive /\ GetLock(t)
        \/ GetBody(t)
        \/ GetConstruct(t)
        \/ \E c \in ConnIds : Alive /\ ReturnCall(t, c)
        \/ ReturnLiveBody(t)
        \/ \E c \in ConnIds : DropLeased(t, c)
        \/ PoolDtor(t)

SpecLife == Init /\ [][NextLife]_vars

(* ============================ Transaction ============================== *)
\* txn[i].st        "none" (not begun) | "live" | "destroyed"
\* txn[i]._committed  the flag Transaction::_committed
\* txn[i].calls     the calls made on its pqxx::work handle _txn, in order:
\*                  [op, by, res] with op the member called, by "call" (an
\*                  explicit member call) or "dtor" (the destructor), res
\*                  "ok", "sql_error" (pqxx::sql_error) or "failure" (any
\*                  other std::exception)
\* last             [i, fn, raised]: the last call, the Transaction it was
\*                  made on and the exception that left it ("none": returned)

\* calls made on all pqxx::work handles so far
RECURSIVE TotalCalls(_)
TotalCalls(i) == IF i = 0 THEN 0 ELSE Len(txn[i].calls) + TotalCalls(i - 1)

CallsLeft == TotalCalls(MaxTxns) < MaxCalls

\* the exception classes of pg_wrapper.h:17-30 (ConnectionError and
\* QueryError derive from DatabaseError, DatabaseError from std::runtime_error)
DatabaseErrorFamily == {"DatabaseError", "ConnectionError", "QueryError"}

\* Database::is_open() of the Database the Transactions are begun on
db_is_open == _conn = "open"

\* Database::begin_transaction: ConnectionError when not open, else a new
\* Transaction with _committed(false)
begin_transaction ==
    IF ~db_is_open
    THEN /\ last' = [i |-> 0, fn |-> "begin_transaction", raised |-> "ConnectionError"]
         /\ UNCHANGED <<_conn, txn, implicit>>
         /\ UNCHANGED poolVars
         /\ UNCHANGED rowVars
         /\ UNCHANGED resVars
    ELSE /\ \E i \in TxnIds :
              /\ txn[i].st = "none"
              /\ \A j \in TxnIds : txn[j].st = "none" => i <= j
              /\ txn' = [txn EXCEPT ![i] = [st |-> "live", _committed |-> FALSE, calls |-> <<>>]]
              /\ last' = [i |-> i, fn |-> "begin_transaction", raised |-> "none"]
         /\ UNCHANGED <<_conn, implicit>>
         /\ UNCHANGED poolVars
         /\ UNCHANGED rowVars
         /\ UNCHANGED resVars

\* Database::close: release the handle when there is one
close ==
    /\ _conn' = "null"
    /\ last' = [i |-> 0, fn |-> "close", raised |-> "none"]
    /\ UNCHANGED <<txn, implicit>>
    /\ UNCHANGED poolVars
    /\ UNCHANGED rowVars
    /\ UNCHANGED resVars

\* the common body of Transaction::exec / exec_params / exec_prepared: the
\* statement goes to _txn whatever _committed is; pqxx::sql_error becomes
\* QueryError, any other std::exception DatabaseError
ExecOn(i, fn) ==
    /\ txn[i].st = "live"
    /\ CallsLeft
    /\ \E res \in {"ok", "sql_error", "failure"} :
         /\ txn' = [txn EXCEPT ![i].calls = Append(@, [op |-> fn, by |-> "call", res |-> res])]
         /\ last' = [i |-> i, fn |-> fn,
                     raised |-> CASE res = "ok" -> "none"
                                  [] res = "sql_error" -> "QueryError"
                                  [] OTHER -> "DatabaseError"]
    /\ UNCHANGED <<_conn, implicit>>
    /\ UNCHANGED poolVars
    /\ UNCHANGED rowVars
    /\ UNCHANGED resVars

exec(i) == ExecOn(i, "exec")
exec_params(i) == ExecOn(i, "exec_params")
exec_prepared(i) == ExecOn(i, "exec_prepared")

\* commit as it would be without the test of _committed: every call goes to
\* _txn->commit()
commit_NoGuard(i) ==
    /\ txn[i].st = "live"
    /\ CallsLeft
    /\ \E res \in {"ok", "failure"} :
         /\ txn' = [txn EXCEPT ![i].calls = Append(@, [op |-> "commit", by |-> "call", res |-> res]),
                               ![i]._committed = (res = "ok") \/ @]
         /\ last' = [i |-> i, fn |-> "commit",
                     raised |-> IF res = "ok" THEN "none" ELSE "DatabaseError"]
    /\ UNCHANGED <<_conn, implicit>>
    /\ UNCHANGED poolVars
    /\ UNCHANGED rowVars
    /\ UNCHANGED resVars

\* Transaction::commit
commit(i) ==
    /\ txn[i].st = "live"
    /\ IF txn[i]._committed
       THEN /\ last' = [i |-> i, fn |-> "commit", raised |-> "runtime_error"]
            /\ UNCHANGED txn
       ELSE /\ CallsLeft
            /\ \E res \in {"ok", "failure"} :
                 /\ txn' = [txn EXCEPT ![i].calls = Append(@, [op |-> "commit", by |-> "call", res |-> res]),
                                       ![i]._committed = (res = "ok")]
                 /\ last' = [i |-> i, fn |-> "commit",
                             raised |-> IF res = "ok" THEN "none" ELSE "DatabaseError"]
    /\ UNCHANGED <<_conn, implicit>>
    /\ UNCHANGED poolVars
    /\ UNCHANGED rowVars
    /\ UNCHANGED resVars

\* abort as it would be without the test of _committed: every call goes to
\* _txn->abort()
abort_NoGuard(i) ==
    /\ txn[i].st = "live"
    /\ CallsLeft
    /\ \E res \in {"ok", "failure"} :
         /\ txn' = [txn EXCEPT ![i].calls = Append(@, [op |-> "abort", by |-> "call", res |-> res]),
                               ![i]._committed = (res = "ok") \/ @]
         /\ last' = [i |-> i, fn |-> "abort",
                     raised |-> IF res = "ok" THEN "none" ELSE "pqxx_exception"]
    /\ UNCHANGED <<_conn, implicit>>
    /\ UNCHANGED poolVars
    /\ UNCHANGED rowVars
    /\ UNCHANGED resVars

\* Transaction::abort: the exception of a failing _txn->abort() leaves the
\* call as it is, before _committed is set
abort(i) ==
    /\ txn[i].st = "live"
    /\ IF ~txn[i]._committed
       THEN /\ CallsLeft
            /\ \E res \in {"ok", "failure"} :
                 /\ txn' = [txn EXCEPT ![i].calls = Append(@, [op |-> "abort", by |-> "call", res |-> res]),
                                       ![i]._committed = (res = "ok")]
                 /\ last' = [i |-> i, fn |-> "abort",
                             raised |-> IF res = "ok" THEN "none" ELSE "pqxx_exception"]
       ELSE /\ last' = [i |-> i, fn |-> "abort", raised |-> "none"]
            /\ UNCHANGED txn
    /\ UNCHANGED <<_conn, implicit>>
    /\ UNCHANGED poolVars
    /\ UNCHANGED rowVars
    /\ UNCHANGED resVars

\* the destructor without the catch (...) around its abort
Destroy_Rethrows(i) ==
    /\ txn[i].st = "live"
    /\ IF ~txn[i]._committed
       THEN /\ CallsLeft
            /\ \E res \in {"ok", "failure"} :
                 /\ txn' = [txn EXCEPT ![i].calls = Append(@, [op |-> "abort", by |-> "dtor", res |-> res]),
                                       ![i].st = "destroyed"]
                 /\ last' = [i |-> i, fn |-> "~Transaction",
                             raised |-> IF res = "ok" THEN "none" ELSE "pqxx_exception"]
       ELSE /\ txn' = [txn EXCEPT ![i].st = "destroyed"]
            /\ last' = [i |-> i, fn |-> "~Transaction", raised |-> "none"]
    /\ UNCHANGED <<_conn, implicit>>
    /\ UNCHANGED poolVars
    /\ UNCHANGED rowVars
    /\ UNCHANGED resVars

\* the destructor as it would be without the test of _committed: it aborts
\* whatever happened before
Destroy_AlwaysAborts(i) ==
    /\ txn[i].st = "live"
    /\ CallsLeft
    /\ \E res \in {"ok", "failure"} :
         txn' = [txn EXCEPT ![i].calls = Append(@, [op |-> "abort", by |-> "dtor", res |-> res]),
                            ![i].st = "destroyed"]
    /\ last' = [i |-> i, fn |-> "~Transaction", raised |-> "none"]
    /\ UNCHANGED <<_conn, implicit>>
    /\ UNCHANGED poolVars
    /\ UNCHANGED rowVars
    /\ UNCHANGED resVars

\* Transaction::~Transaction: abort when not _committed, ignoring exceptions
Destroy(i) ==
    /\ txn[i].st = "live"
    /\ IF ~txn[i]._committed
       THEN /\ CallsLeft
            /\ \E res \in {"ok", "failure"} :
                 txn' = [txn EXCEPT ![i].calls = Append(@, [op |-> "abort", by |-> "dtor", res |-> res]),
                                    ![i].st = "destroyed"]
       ELSE txn' = [txn EXCEPT ![i].st = "destroyed"]
    /\ last' = [i |-> i, fn |-> "~Transaction", raised |-> "none"]
    /\ UNCHANGED <<_conn, implicit>>
    /\ UNCHANGED poolVars
    /\ UNCHANGED rowVars
    /\ UNCHANGED resVars

(* ------------- Database::exec / exec_params / exec_prepared ------------ *)
\* implicit   the Transaction `txn` local to the last call of the family:
\*            [st, _committed, calls] as for txn[i]; it is constructed and
\*            destroyed inside the call

\* the exception Transaction::exec / exec_params / exec_prepared raise for
\* the outcome res of the call on _txn
ExecRaised(res) ==
    CASE res = "ok" -> "none"
      [] res = "sql_error" -> "QueryError"
      [] OTHER -> "DatabaseError"

\* what ~Transaction adds to the call log: an abort when not _committed
DtorCalls(committed, abortRes) ==
    IF committed THEN <<>> ELSE <<[op |-> "abort", by |-> "dtor", res |-> abortRes]>>

\* the family with a destructor that lets the exception of its abort escape
DbExecFamily_AbortMasks(fn, execRes, commitRes, abortRes) ==
    IF ~db_is_open
    THEN /\ last' = [i |-> 0, fn |-> fn, raised |-> "ConnectionError"]
         /\ implicit' = [st |-> "none", _committed |-> FALSE, calls |-> <<>>]
    ELSE IF execRes # "ok"
    THEN /\ last' = [i |-> 0, fn |-> fn,
                     raised |-> IF abortRes = "ok" THEN ExecRaised(execRes)
                                ELSE "pqxx_exception"]
         /\ implicit' = [st |-> "destroyed", _committed |-> FALSE,
                         calls |-> <<[op |-> fn, by |-> "call", res |-> execRes]>>
                                   \o DtorCalls(FALSE, abortRes)]
    ELSE /\ last' = [i |-> 0, fn |-> fn,
                     raised |-> IF commitRes = "ok" THEN "none"
                                ELSE IF abortRes = "ok" THEN "DatabaseError"
                                ELSE "pqxx_exception"]
         /\ implicit' = [st |-> "destroyed", _committed |-> (commitRes = "ok"),
                         calls |-> <<[op |-> fn, by |-> "call", res |-> "ok"],
                                     [op |-> "commit", by |-> "call", res |-> commitRes]>>
                                   \o DtorCalls(commitRes = "ok", abortRes)]

\* auto txn = begin_transaction(); auto result = txn.<fn>(...); txn.commit();
\* return result;  with the outcomes execRes, commitRes, abortRes of the calls
\* on _txn.  The local txn is destroyed on every way out: after the return, or
\* while the exception of txn.<fn> or txn.commit() unwinds; the destructor
\* ignores the exception of its abort.
DbExecFamily(fn, execRes, commitRes, abortRes) ==
    IF ~db_is_open
    THEN /\ last' = [i |-> 0, fn |-> fn, raised |-> "ConnectionError"]
         /\ implicit' = [st |-> "none", _committed |-> FALSE, calls |-> <<>>]
    ELSE IF execRes # "ok"
    THEN /\ last' = [i |-> 0, fn |-> fn, raised |-> ExecRaised(execRes)]
         /\ implicit' = [st |-> "destroyed", _committed |-> FALSE,
                         calls |-> <<[op |-> fn, by |-> "call", res |-> execRes]>>
                                   \o DtorCalls(FALSE, abortRes)]
    ELSE /\ last' = [i |-> 0, fn |-> fn,
                     raised |-> IF commitRes = "ok" THEN "none" ELSE "DatabaseError"]
         /\ implicit' = [st |-> "destroyed", _committed |-> (commitRes = "ok"),
                         calls |-> <<[op |-> fn, by |-> "call", res |-> "ok"],
                                     [op |-> "commit", by |-> "call", res |-> commitRes]>>
                                   \o DtorCalls(commitRes = "ok", abortRes)]

DbExecCall(fn) ==
    /\ \E execRes \in {"ok", "sql_error", "failure"} :
       \E commitRes \in {"ok", "failure"} :
       \E abortRes \in {"ok", "failure"} :
           DbExecFamily(fn, execRes, commitRes, abortRes)
    /\ UNCHANGED <<_conn, txn>>
    /\ UNCHANGED poolVars
    /\ UNCHANGED rowVars
    /\ UNCHANGED resVars

\* Database::exec
db_exec == DbExecCall("exec")
\* Database::exec_params
db_exec_params == DbExecCall("exec_params")
\* Database::exec_prepared
db_exec_prepared == DbExecCall("exec_prepared")

NextTxn ==
    \/ begin_transaction
    \/ close
    \/ \E i \in TxnIds :
        \/ exec(i)
        \/ exec_params(i)
        \/ exec_prepared(i)
        \/ commit(i)
        \/ abort(i)
        \/ Destroy(i)

SpecTxn == Init /\ [][NextTxn]_vars

(* ===================== Database: calls on one Database ================= *)
\* dereferencing the empty unique_ptr _conn is undefined behaviour: the call
\* may crash the process, return garbage, or raise
NullDeref == {"crash", "none", "DatabaseError"}

\* Database::prepare: _conn->prepare(...) with no test of _conn; any
\* std::exception becomes DatabaseError
prepare ==
    /\ \E r \in (IF _conn = "null" THEN NullDeref ELSE {"none", "DatabaseError"}) :
           last' = [i |-> 0, fn |-> "prepare", raised |-> r]
    /\ UNCHANGED <<_conn, txn, implicit>>
    /\ UNCHANGED poolVars
    /\ UNCHANGED rowVars
    /\ UNCHANGED resVars

AccessorFns == {"dbname", "username", "hostname", "port"}

\* Database::dbname / username / hostname / port: return _conn-><fn>() with
\* no test of _conn and no try block
Accessor(fn) ==
    /\ \E r \in (IF _conn = "null" THEN NullDeref \ {"DatabaseError"} ELSE {"none"}) :
           last' = [i |-> 0, fn |-> fn, raised |-> r]
    /\ UNCHANGED <<_conn, txn, implicit>>
    /\ UNCHANGED poolVars
    /\ UNCHANGED rowVars
    /\ UNCHANGED resVars

NextDb ==
    \/ begin_transaction
    \/ close
    \/ db_exec
    \/ db_exec_params
    \/ db_exec_prepared
    \/ prepare
    \/ \E fn \in AccessorFns : Accessor(fn)
    \/ \E i \in TxnIds : Destroy(i)

SpecDb == Init /\ [][NextDb]_vars

(* ========================= Row: calls on one Row ======================= *)
\* Row::Row(const pqxx::row& row): a Row over any row of the result
RowCtor ==
    /\ \E r \in Rows : _row' = r
    /\ outs' = [fn \in RowFns |-> NoCall]
    /\ UNCHANGED poolVars
    /\ UNCHANGED txnVars
    /\ UNCHANGED resVars

\* a call of fn on the Row with argument col, by index or by name, whose
\* possible outcomes are outcomes
RowCall(fn, by, col, outcomes) ==
    /\ \E o \in outcomes : outs' = [outs EXCEPT ![fn] = [by |-> by, col |-> col, out |-> o]]
    /\ UNCHANGED _row
    /\ UNCHANGED poolVars
    /\ UNCHANGED txnVars
    /\ UNCHANGED resVars

RowGet == \E col \in Indices : RowCall("get", "index", col, get(_row, col))
RowGetName == \E n \in Names : RowCall("get", "name", n, get_name(_row, n))
RowGetOptional == \E col \in Indices : RowCall("get_optional", "index", col, get_optional(_row, col))
RowGetOptionalName == \E n \in Names : RowCall("get_optional", "name", n, get_optional_name(_row, n))
RowIsNull == \E col \in Indices : RowCall("is_null", "index", col, is_null(_row, col))
RowIsNullName == \E n \in Names : RowCall("is_null", "name", n, is_null_name(_row, n))

NextRow ==
    \/ RowCtor
    \/ RowGet
    \/ RowGetName
    \/ RowGetOptional
    \/ RowGetOptionalName
    \/ RowIsNull
    \/ RowIsNullName

SpecRow == Init /\ [][NextRow]_vars

(* ====================== Result: calls on one Result ==================== *)
Others == /\ UNCHANGED poolVars
          /\ UNCHANGED txnVars
          /\ UNCHANGED rowVars

\* Result::Result(const pqxx::result& result): a Result over any result
ResultCtor ==
    /\ \E r \in Results : _result' = r
    /\ _itr' = NoItr
    /\ yielded' = <<>>
    /\ rcall' = NoRCall
    /\ vec' = NoVec
    /\ Others

\* a pass over the Result starts: auto it = begin()
PassBegin ==
    /\ _itr' = begin(_result)
    /\ yielded' = <<>>
    /\ UNCHANGED <<_result, rcall, vec>>
    /\ Others

\* one step of the pass while it != end(): the Row *it, then ++it
PassStep ==
    /\ _itr # NoItr
    /\ _itr # end(_result)
    /\ yielded' = Append(yielded, RowAt(_result, _itr))
    /\ _itr' = _itr + 1
    /\ UNCHANGED <<_result, rcall, vec>>
    /\ Others

ResultCall(fn, i, o) ==
    /\ rcall' = [fn |-> fn, i |-> i, out |-> o]
    /\ UNCHANGED <<_result, _itr, yielded, vec>>
    /\ Others

Subscript == \E i \in RowNums : ResultCall("operator[]", i, subscript(_result, i))
At == \E i \in RowNums : ResultCall("at", i, at(_result, i))
Front == ResultCall("front", 0, front(_result))
FrontOptional == ResultCall("front_optional", 0, front_optional(_result))

\* to_vector whose loop starts at the second row
ToVector_SkipsFirst ==
    /\ \E c \in Converters :
           vec' = to_vector(_result, c,
                            IF empty(_result) THEN begin(_result) ELSE begin(_result) + 1,
                            [conv |-> c, out |-> <<>>, calls |-> <<>>])
    /\ UNCHANGED <<_result, _itr, yielded, rcall>>
    /\ Others

\* Result::to_vector with any of the converters
ToVector ==
    /\ \E c \in Converters :
           vec' = to_vector(_result, c, begin(_result), [conv |-> c, out |-> <<>>, calls |-> <<>>])
    /\ UNCHANGED <<_result, _itr, yielded, rcall>>
    /\ Others

NextResult ==
    \/ ResultCtor
    \/ PassBegin
    \/ PassStep
    \/ Subscript
    \/ At
    \/ Front
    \/ FrontOptional
    \/ ToVector

SpecResult == Init /\ [][NextResult]_vars

(* ======================= ConnectionPool properties ===================== *)
\* the Database objects that exist with a live handle (on lease, idle, or in
\* the hands of a running return_connection call)
LiveConns == {c \in ConnIds : conn[c] = "open" /\ c \notin foreign}

\* the Database objects owned by nobody: not idle, not on lease, not the
\* argument of a running return_connection
Unowned ==
    {c \in ConnIds : /\ \A k \in 1..Len(_pool) : _pool[k] # c
                     /\ \A t \in Threads : c \notin held[t] /\ arg[t] # c}

\* C1: for a pool of capacity N and any interleaving of get_connection and
\* return_connection (null and closed connections included), the number of
\* connections created by the pool that exist at the same time never
\* exceeds N.
C1_LiveConnsWithinCapacity == Cardinality(LiveConns) <= _maxConnections

\* C2: in every reachable state 0 <= _currentConnections <= N: the unsigned
\* counter is never decremented at 0 and never wraps.
C2_CounterWithinCapacity ==
    /\ 0 <= _currentConnections
    /\ _currentConnections <= _maxConnections

\* C3: when the new Database cannot be constructed, ConnectionError leaves
\* get_connection and the live count after the call equals the live count
\* before the call (the reservation made by ++_currentConnections is rolled
\* back).
C3_FailedConstructRollsBack ==
    [][\A t \in Threads :
          (pc[t] = "get_construct" /\ ret' = [t |-> t, kind |-> "ConnectionError"])
              => _currentConnections' = _currentConnections - 1]_vars

\* a return_connection call of thread t completes in this step
ReturnCompletes(t) ==
    /\ pc[t] \in {"ret_dead_locked", "ret_live_locked"}
    /\ pc'[t] = "idle"

\* C4: return_connection with an absent (null) or not-open connection
\* decrements the live count by exactly one (a size_t decrement) and leaves
\* the idle store unchanged: the dead connection never enters the idle store.
C4_DeadReturnDecrements ==
    [][\A t \in Threads :
          (ReturnCompletes(t) /\ ~is_open(arg[t]))
              => /\ _currentConnections' = Decr(_currentConnections)
                 /\ _pool' = _pool
                 /\ \A k \in 1..Len(_pool') : _pool'[k] # arg[t]]_vars

\* C4 witness: two connections were created; one is idle, the other was
\* closed by its holder and handed to return_connection, which has completed:
\* the closed one is gone, the idle store holds only the other one and the
\* counter went from 2 to 1.
C4_Witness ==
    \E t \in Threads :
        /\ ret = [t |-> t, kind |-> "dropped_dead"]
        /\ \A u \in Threads : held[u] = {} /\ pc[u] = "idle"
        /\ Len(_pool) = 1
        /\ \A c \in ConnIds : conn[c] # "none" <=> c = _pool[1]
        /\ _currentConnections = 1

(* ========================= Transaction properties ====================== *)
ExecOps == {"exec", "exec_params", "exec_prepared"}
TerminalOps == {"commit", "abort"}

\* positions in the call log of Transaction i where a backend commit or abort
\* took effect (returned without exception)
Effective(i) ==
    {k \in 1..Len(txn[i].calls) :
        txn[i].calls[k].op \in TerminalOps /\ txn[i].calls[k].res = "ok"}

\* the state of the Transaction in the terms of the state machine
\* Open -> {Committed | Aborted}
State(i) ==
    IF txn[i].st = "none" THEN "none"
    ELSE IF Effective(i) = {} THEN "Open"
    ELSE IF \E k \in Effective(i) : txn[i].calls[k].op = "commit" THEN "Committed"
    ELSE "Aborted"

\* C5: if the backend commit fails inside commit(), the Transaction is left
\* terminal: it is not Open afterwards, and no later commit(), abort() or
\* destructor issues another backend commit or abort.
C5_FailedCommitIsTerminal ==
    \A i \in TxnIds : \A k \in 1..Len(txn[i].calls) :
        (txn[i].calls[k].op = "commit" /\ txn[i].calls[k].res = "failure")
            => /\ txn[i].st = "live" => txn[i]._committed
               /\ \A l \in (k + 1)..Len(txn[i].calls) :
                      txn[i].calls[l].op \notin TerminalOps

\* C6: commit() on a Transaction that has already committed fails with an
\* error of the DatabaseError family, performs no second backend commit and
\* leaves the Transaction Committed.
C6_SecondCommitRejected ==
    \A i \in TxnIds :
        (last.i = i /\ last.fn = "commit" /\ last.raised # "none"
                    /\ State(i) = "Committed")
            => /\ last.raised \in DatabaseErrorFamily
               /\ Cardinality({k \in 1..Len(txn[i].calls) : txn[i].calls[k].op = "commit"}) = 1
               /\ txn[i]._committed

\* C7: abort() on a Transaction that is already terminal raises no error,
\* issues no backend abort and leaves the state unchanged; a backend abort is
\* issued by abort() only on a Transaction that is Open.
C7_AbortIdempotent ==
    [][\A i \in TxnIds :
          /\ (last'.fn = "abort" /\ last'.i = i /\ txn[i]._committed)
                => (last'.raised = "none" /\ txn'[i] = txn[i])
          /\ (/\ Len(txn'[i].calls) > Len(txn[i].calls)
              /\ txn'[i].calls[Len(txn'[i].calls)].op = "abort"
              /\ txn'[i].calls[Len(txn'[i].calls)].by = "call")
                => (~txn[i]._committed /\ Len(txn'[i].calls) = Len(txn[i].calls) + 1)]_vars

\* C7 witness: abort() was called on a Transaction that had committed; it
\* returned normally and the Transaction is still Committed with its single
\* backend commit.
C7_Witness ==
    \E i \in TxnIds :
        /\ last = [i |-> i, fn |-> "abort", raised |-> "none"]
        /\ txn[i].st = "live"
        /\ State(i) = "Committed"
        /\ Len(txn[i].calls) = 1

\* C8: a Transaction leaves Open at most once and never returns to Open: at
\* most one backend commit-or-abort takes effect, and after it no further
\* backend commit or abort is issued (Committed is never afterwards aborted,
\* Aborted never committed).
C8_TerminalOnce ==
    /\ [](\A i \in TxnIds :
            /\ Cardinality(Effective(i)) <= 1
            /\ (txn[i].st = "live" /\ txn[i]._committed) => Cardinality(Effective(i)) = 1
            /\ \A k \in Effective(i) : \A l \in (k + 1)..Len(txn[i].calls) :
                   txn[i].calls[l].op \notin TerminalOps)
    /\ [][\A i \in TxnIds :
            /\ txn[i]._committed => txn'[i]._committed
            /\ txn[i].st = "destroyed" => txn'[i] = txn[i]]_vars

\* C8 witness: a Transaction executed a statement, committed and went out of
\* scope: its log ends with the one commit, the destructor added no abort.
C8_Witness ==
    \E i \in TxnIds :
        /\ txn[i].st = "destroyed"
        /\ State(i) = "Committed"
        /\ Len(txn[i].calls) = 2
        /\ txn[i].calls[1].op = "exec"

\* C9: once a Transaction is terminal, every further exec / exec_params /
\* exec_prepared and every commit() fails and sends nothing to the backend.
C9_NoUseAfterTerminal ==
    \A i \in TxnIds :
        /\ \A k \in Effective(i) : \A l \in (k + 1)..Len(txn[i].calls) :
               txn[i].calls[l].op \notin (ExecOps \cup {"commit"})
        /\ (last.i = i /\ last.fn \in ExecOps /\ txn[i]._committed)
               => last.raised # "none"

\* C10: the destructor of a Transaction that is still Open (neither commit()
\* nor abort() succeeded) issues exactly one backend abort and lets no
\* exception escape; the destructor of a Transaction that was committed or
\* aborted issues none.
C10_DestructorAbortsOnce ==
    /\ [][\A i \in TxnIds :
            (txn[i].st = "live" /\ txn'[i].st = "destroyed")
                => /\ last'.raised = "none"
                   /\ IF Effective(i) = {}
                      THEN /\ Len(txn'[i].calls) = Len(txn[i].calls) + 1
                           /\ SubSeq(txn'[i].calls, 1, Len(txn[i].calls)) = txn[i].calls
                           /\ txn'[i].calls[Len(txn'[i].calls)].op = "abort"
                           /\ txn'[i].calls[Len(txn'[i].calls)].by = "dtor"
                      ELSE txn'[i].calls = txn[i].calls]_vars
    /\ [](\A i \in TxnIds : \A k \in 1..Len(txn[i].calls) :
            txn[i].calls[k].by = "dtor"
                => (k = Len(txn[i].calls) /\ txn[i].st = "destroyed"))

\* C10 witness: a Transaction whose commit attempt failed went out of scope
\* and its destructor issued the abort.
C10_Witness ==
    \E i \in TxnIds :
        /\ txn[i].st = "destroyed"
        /\ Len(txn[i].calls) = 2
        /\ txn[i].calls[1] = [op |-> "commit", by |-> "call", res |-> "failure"]
        /\ txn[i].calls[2].op = "abort"
        /\ txn[i].calls[2].by = "dtor"

\* C11: when a statement executed on an Open Transaction is rejected by the
\* backend (QueryError), the Transaction ends Aborted: it is terminal
\* afterwards and no later commit() on it succeeds.
C11_FailedStatementAborts ==
    \A i \in TxnIds : \A k \in 1..Len(txn[i].calls) :
        (txn[i].calls[k].op \in ExecOps /\ txn[i].calls[k].res = "sql_error")
            => /\ txn[i].st = "live" => txn[i]._committed
               /\ \A l \in (k + 1)..Len(txn[i].calls) :
                      ~(txn[i].calls[l].op = "commit" /\ txn[i].calls[l].res = "ok")

(* ------------------ ConnectionPool properties, continued --------------- *)
\* thread t leaves the critical section of get_connection in this step
GetDecides(t) == pc[t] = "get_locked" /\ pc'[t] # "get_locked"

\* C15: get_connection on an empty idle store with the counter at N returns
\* nullptr at once and changes neither the counter nor the idle store; the
\* get_connection that follows the return of an open connection returns a
\* connection.
C15_ExhaustedThenRefilled ==
    [][\A t \in Threads :
          /\ (GetDecides(t) /\ _pool = <<>> /\ _currentConnections = _maxConnections)
                => /\ ret' = [t |-> t, kind |-> "nullptr"]
                   /\ pc'[t] = "idle"
                   /\ UNCHANGED <<_pool, _currentConnections, held, conn>>
          /\ (GetDecides(t) /\ ret.kind \in {"pooled", "dropped_full"})
                => /\ ret' = [t |-> t, kind |-> "conn"]
                   /\ pc'[t] = "idle"
                   /\ held'[t] # held[t]]_vars

\* all N connections are on lease and a further get_connection got nullptr
C15_Witness ==
    /\ ret.kind = "nullptr"
    /\ _pool = <<>>
    /\ _currentConnections = _maxConnections
    /\ Cardinality(UNION {held[t] : t \in Threads}) = _maxConnections

\* C16: get_connection on a non-empty idle store removes and returns the
\* connection returned most recently among the idle ones (the idle store only
\* grows at its back and is only taken from at its back), constructs nothing
\* and leaves the counter unchanged.
C16_LifoReuse ==
    [][/\ \A t \in Threads :
            (GetDecides(t) /\ _pool # <<>>)
                => /\ ret' = [t |-> t, kind |-> "conn"]
                   /\ held' = [held EXCEPT ![t] = @ \cup {_pool[Len(_pool)]}]
                   /\ _pool' = SubSeq(_pool, 1, Len(_pool) - 1)
                   /\ pc'[t] = "idle"
                   /\ UNCHANGED <<_currentConnections, conn>>
       /\ \/ _pool' = _pool
          \/ _pool # <<>> /\ _pool' = SubSeq(_pool, 1, Len(_pool) - 1)
          \/ \E c \in ConnIds : _pool' = Append(_pool, c) /\ ret'.kind = "pooled"]_vars

\* a thread took one of two idle connections: the other one is still idle
C16_Witness ==
    \E t \in Threads :
        /\ ret = [t |-> t, kind |-> "conn"]
        /\ Len(_pool) = 1
        /\ Cardinality(held[t]) = 1

\* C17: the idle store never holds more than N connections, whatever is
\* returned (leased connections, null, Database objects the pool did not
\* create); an open connection returned while the idle store holds N is
\* destroyed, the idle store stays as it is and the counter is decremented.
C17_IdleStoreWithinCapacity ==
    /\ [](Len(_pool) <= _maxConnections)
    /\ [][\A t \in Threads :
            (ReturnCompletes(t) /\ is_open(arg[t]) /\ Len(_pool) = _maxConnections)
                => /\ _pool' = _pool
                   /\ _currentConnections' = Decr(_currentConnections)
                   /\ conn'[arg[t]] = "none"
                   /\ ret' = [t |-> t, kind |-> "dropped_full"]]_vars

\* the idle store is full and holds a Database the pool did not create, and
\* the open connection returned last found no room and was dropped
C17_Witness ==
    /\ ret.kind = "dropped_full"
    /\ Len(_pool) = _maxConnections
    /\ \E k \in 1..Len(_pool) : _pool[k] \in foreign

\* C18: the idle store and the counter are only read and written by the
\* holder of the mutex, and no thread connects a new Database (or closes
\* one) while it holds the mutex: get_connection does not construct the
\* Database inside its critical section.
C18_NoNetworkUnderMutex ==
    \A t \in Threads :
        /\ pc[t] \in {"get_locked", "ret_dead_locked", "ret_live_locked"} => _mutex = t
        /\ pc[t] = "get_construct" => _mutex # t

\* a holder destroys a connection it has on lease in this step
Leaks(t, c) == c \in held[t] /\ conn[c] # "leaked" /\ conn'[c] = "leaked"

\* C28: a leased connection destroyed by its holder without return_connection
\* changes neither the counter nor the idle store (the pool goes on counting
\* it); the destructor of the pool destroys exactly the idle connections and
\* leaves every connection on lease as it is.
C28_LeasesNotTracked ==
    [][/\ \A t \in Threads : \A c \in ConnIds :
            Leaks(t, c) => UNCHANGED <<_pool, _currentConnections>>
       /\ (Alive /\ ~Alive')
            => /\ _pool' = <<>>
               /\ \A c \in Idle : conn'[c] = "none"
               /\ \A c \in ConnIds \ Idle : conn'[c] = conn[c]
               /\ held' = held
               /\ _currentConnections' = _currentConnections]_vars

\* one connection was leaked and is still counted; the pool was then
\* destroyed while another connection was on lease, which is still open in the
\* hands of its holder
C28_Witness ==
    /\ ~Alive
    /\ \E c \in ConnIds : conn[c] = "leaked"
    /\ \E t \in Threads : \E c \in held[t] : conn[c] = "open"
    /\ _currentConnections = _maxConnections

\* the connections on lease
OnLease == UNION {held[t] : t \in Threads}

\* C29: with callers that return only non-null connections of this pool, each
\* once, and leak none, the counter equals idle connections + connections on
\* lease whenever no pool call is in progress, also after a get_connection
\* whose Database could not be constructed.
C29_CounterIsIdlePlusLeased ==
    (\A t \in Threads : pc[t] = "idle")
        => _currentConnections = Len(_pool) + Cardinality(OnLease)

\* C30: a connection is never on lease to two callers, never on lease and
\* idle at once (nor twice in the idle store), and get_connection hands out
\* only a connection that is idle (returned since it was last handed out) or
\* newly constructed.
C30_ExclusiveLease ==
    /\ [](\A c \in ConnIds :
            Cardinality({t \in Threads : c \in held[t]})
              + Cardinality({k \in 1..Len(_pool) : _pool[k] = c})
              + Cardinality({t \in Threads : arg[t] = c}) <= 1)
    /\ [][\A t \in Threads : \A c \in held'[t] \ held[t] :
            /\ \A u \in Threads : c \notin held[u] /\ arg[u] # c
            /\ \/ c \in Idle /\ c \notin {_pool'[k] : k \in 1..Len(_pool')}
               \/ conn[c] = "none" /\ c \notin Idle]_vars

\* a caller has been handed a connection out of the idle store while the
\* other callers hold none and another connection stays idle
C30_Witness ==
    \E t \in Threads :
        /\ ret = [t |-> t, kind |-> "conn"]
        /\ _mutex = NoThread
        /\ held[t] # {}
        /\ \A u \in Threads \ {t} : held[u] = {}
        /\ _pool # <<>>
        /\ Idle \cap held[t] = {}

\* the positions of a caller that is inside a critical section of the pool
Locked == {"get_locked", "get_construct", "ret_dead_locked", "ret_live_locked"}

C32_HandedOutOpen ==
    [][\A t \in Threads :
          (GetDecides(t) \/ pc[t] = "get_construct")
              => \A c \in held'[t] \ held[t] : conn'[c] = "open"]_vars

(* ========================= Database properties ========================= *)
\* the last call was Database::exec / exec_params / exec_prepared
LastWasDbExec == last.i = 0 /\ last.fn \in ExecOps

\* C12: Database::exec / exec_params / exec_prepared begin one Transaction,
\* run the statement once and commit once on success; when the statement or
\* the commit fails the implicit Transaction gets its abort and the caller
\* sees the error of the statement or of the commit, never one of the
\* rollback; the implicit Transaction is never left behind Open.
C12_WrapperCommitsOrAborts ==
    /\ implicit.st \in {"none", "destroyed"}
    /\ LastWasDbExec =>
         LET c == implicit.calls
             r == last.raised
         IN  /\ r \in {"none", "QueryError", "DatabaseError", "ConnectionError"}
             /\ (r = "ConnectionError") <=> (c = <<>>)
             /\ (r = "none") <=>
                    (c = <<[op |-> last.fn, by |-> "call", res |-> "ok"],
                           [op |-> "commit", by |-> "call", res |-> "ok"]>>)
             /\ (r # "none" /\ c # <<>>) =>
                    /\ c[1].op = last.fn /\ c[1].by = "call"
                    /\ c[Len(c)].op = "abort" /\ c[Len(c)].by = "dtor"
                    /\ \A k \in 1..Len(c) : ~(c[k].op = "commit" /\ c[k].res = "ok")
                    /\ IF c[1].res # "ok"
                       THEN Len(c) = 2 /\ r = ExecRaised(c[1].res)
                       ELSE /\ Len(c) = 3
                            /\ c[2] = [op |-> "commit", by |-> "call", res |-> "failure"]
                            /\ r = "DatabaseError"

\* a statement was rejected inside Database::exec, the rollback failed too,
\* and the caller got the QueryError of the statement
C12_Witness ==
    /\ LastWasDbExec
    /\ last.raised = "QueryError"
    /\ Len(implicit.calls) = 2
    /\ implicit.calls[2] = [op |-> "abort", by |-> "dtor", res |-> "failure"]

\* C13: close() may be repeated without error, is_open() is false after it,
\* and every later call on the Database (begin_transaction, the exec family,
\* prepare, dbname/username/hostname/port) raises ConnectionError.
C13_ClosedDatabaseRefuses ==
    /\ (last.fn = "close") => (last.raised = "none" /\ ~db_is_open)
    /\ (~db_is_open /\ last.i = 0 /\ last.fn \notin {"close", "none"})
           => last.raised = "ConnectionError"

\* the abort of a destructor failed: the last entry of the call log c
DtorAbortFailed(c) ==
    c # <<>> /\ c[Len(c)] = [op |-> "abort", by |-> "dtor", res |-> "failure"]

\* C26: a failure of the abort issued by ~Transaction is swallowed: nothing
\* leaves the destructor; when it happens to the Transaction local to
\* Database::exec / exec_params / exec_prepared, the caller still gets the
\* error of the statement or of the commit.
C26_DestructorSwallowsAbortFailure ==
    /\ [][\A i \in TxnIds :
            (txn[i].st = "live" /\ txn'[i].st = "destroyed")
                => last' = [i |-> i, fn |-> "~Transaction", raised |-> "none"]]_vars
    /\ []((LastWasDbExec /\ DtorAbortFailed(implicit.calls))
            => last.raised = (IF implicit.calls[1].res = "ok" THEN "DatabaseError"
                              ELSE ExecRaised(implicit.calls[1].res)))

\* the abort of the destructor failed both for a Transaction of the caller
\* and, later, for the one inside Database::exec whose commit had failed
C26_Witness ==
    /\ \E i \in TxnIds : txn[i].st = "destroyed" /\ DtorAbortFailed(txn[i].calls)
    /\ LastWasDbExec
    /\ DtorAbortFailed(implicit.calls)
    /\ Len(implicit.calls) = 3

(* ------------------- Transaction properties, continued ----------------- *)
\* the Transaction objects of the Database that exist in state Open
OpenTxns == {i \in TxnIds : txn[i].st = "live" /\ State(i) = "Open"}

SameColumn(f, g) ==
    /\ outs[f].by \in {"index", "name"}
    /\ outs[f].by = outs[g].by
    /\ outs[f].col = outs[g].col
    /\ outs[f].col \in 0..(size(_row) - 1)

\* C19: for every column of a Row, by index in range or by existing name,
\* is_null returns true exactly when get_optional<T> returns the empty
\* optional.
C19_NullIffEmptyOptional ==
    SameColumn("is_null", "get_optional")
        => /\ outs["is_null"].out \in {"true", "false"}
           /\ (outs["is_null"].out = "true") <=> (outs["get_optional"].out = "nullopt")

\* both were called on a NULL column and on a column that is not NULL
C19_Witness ==
    /\ SameColumn("is_null", "get_optional")
    /\ outs["is_null"].out = "true"
    /\ outs["get_optional"].out = "nullopt"
    /\ \E k \in 1..Len(_row) : _row[k] # "null"

\* the last call of fn had a column of the Row as its argument
OnColumn(fn) ==
    /\ outs[fn].by \in {"index", "name"}
    /\ outs[fn].col \in 0..(size(_row) - 1)

\* C20: get<T> on a NULL column always fails with NullValueError;
\* get_optional<T> on a NULL column returns empty and never fails; it fails
\* only on a field that is not NULL and does not convert, with
\* TypeConversionError: NULL and malformed are different outcomes.
C20_NullAndMalformedDistinct ==
    /\ (OnColumn("get") /\ _row[outs["get"].col + 1] = "null")
           => outs["get"].out = "NullValueError"
    /\ OnColumn("get_optional") =>
           LET f == _row[outs["get_optional"].col + 1]
               o == outs["get_optional"].out
           IN  /\ f = "null" => o = "nullopt"
               /\ o \notin {"nullopt", "value"} => (f = "bad" /\ o = "TypeConversionError")

\* the last call of fn had an argument that is no column of the Row: an index
\* outside [0, size()), or an unknown name
OffColumn(fn) ==
    /\ outs[fn].by \in {"index", "name"}
    /\ outs[fn].col \notin 0..(size(_row) - 1)

\* C21: get<T> and get_optional<T> fail with the out-of-range error for
\* every index outside [0, size()), negative ones included, and for every
\* unknown column name, without reading a field.
C21_OutsideRowRejected ==
    \A fn \in {"get", "get_optional"} :
        OffColumn(fn) => outs[fn].out = "std::out_of_range"

\* C22: is_null(index) returns false, raising nothing and reading no field,
\* for every index >= size() and every index < 0; for an index in range it
\* returns whether that field is NULL.
C22_IsNullOutsideRowFalse ==
    outs["is_null"].by = "index"
        => outs["is_null"].out =
               (IF outs["is_null"].col \in 0..(size(_row) - 1)
                      /\ _row[outs["is_null"].col + 1] = "null"
                THEN "true" ELSE "false")

(* ========================== Result properties ========================== *)
\* C23: at(i) and operator[](i) fail with the out-of-range error exactly
\* when i >= size(); otherwise they return row i in server order, which is
\* the row step i of a pass over the Result yields, on every pass.
C23_AtMatchesIteration ==
    /\ rcall.fn \in {"at", "operator[]"} =>
         /\ (rcall.out.kind = "std::out_of_range") <=> (rcall.i >= Len(_result))
         /\ rcall.i < Len(_result) =>
                rcall.out = [kind |-> "row", at |-> rcall.i, val |-> _result[rcall.i + 1]]
         /\ rcall.i < Len(yielded) => yielded[rcall.i + 1] = rcall.out
    /\ \A k \in 1..Len(yielded) :
           yielded[k] = [kind |-> "row", at |-> k - 1, val |-> _result[k]]

\* at(1) returned the second row of a Result whose rows differ, and a pass has
\* gone over that row
C23_Witness ==
    /\ rcall.fn = "at"
    /\ rcall.i = 1
    /\ rcall.out.kind = "row"
    /\ Len(yielded) >= 2
    /\ _result[1] # _result[2]

\* C24: front() fails with its empty-result error exactly when the Result has
\* no rows and otherwise returns row 0; front_optional() never fails, returns
\* the empty optional exactly when the Result has no rows and otherwise row 0.
C24_FrontOfResult ==
    /\ rcall.fn = "front" =>
         /\ (rcall.out.kind = "std::runtime_error") <=> (Len(_result) = 0)
         /\ Len(_result) > 0 => rcall.out = [kind |-> "row", at |-> 0, val |-> _result[1]]
    /\ rcall.fn = "front_optional" =>
         /\ (rcall.out.kind = "nullopt") <=> (Len(_result) = 0)
         /\ Len(_result) > 0 => rcall.out = [kind |-> "row", at |-> 0, val |-> _result[1]]

\* front_optional returned row 0 of a Result with several rows
C24_Witness ==
    /\ rcall.fn = "front_optional"
    /\ rcall.out.kind = "row"
    /\ Len(_result) >= 2

\* C25: to_vector(converter) returns a vector of size() elements whose i-th
\* element is converter(row i), calls the converter once per row in row
\* order and leaves the Result as it was: the same call again gives the same
\* vector.
C25_ToVectorMapsInOrder ==
    /\ [](vec.conv # "none" =>
            /\ Len(vec.out) = Len(_result)
            /\ \A k \in 1..Len(_result) :
                   vec.out[k] = converter(vec.conv, [kind |-> "row", at |-> k - 1, val |-> _result[k]])
            /\ vec.calls = [k \in 1..Len(_result) |-> k - 1])
    /\ [][(vec.conv # "none" /\ vec'.conv = vec.conv) => (vec'.out = vec.out /\ _result' = _result)]_vars

\* to_vector ran with the converter that changes every row, on a Result of
\* several different rows
C25_Witness ==
    /\ vec.conv = "other"
    /\ Len(vec.out) >= 2
    /\ _result[1] # _result[2]

\* C27: while a Transaction is Open the handle of its Database is not
\* released: no Open Transaction refers to a connection that close() has
\* already let go.
C27_OpenTxnKeepsHandle == OpenTxns # {} => _conn = "open"

(* ------------------------------ typing --------------------------------- *)
TypeOK ==
    /\ _pool \in Seq(ConnIds)
    /\ _currentConnections \in 0..SIZE_MAX
    /\ _mutex \in Threads \cup {NoThread}
    /\ \A c \in ConnIds : conn[c] \in {"none", "open", "closed", "leaked"}
    /\ \A c \in Unowned : conn[c] \in {"none", "leaked"}
    /\ \A t \in Threads : held[t] \subseteq ConnIds /\ arg[t] \in ConnIds \cup {Null}
    /\ foreign \subseteq {c \in ConnIds : conn[c] # "none"}
    /\ _row \in Rows
    /\ _result \in Results
    /\ _itr \in {NoItr} \cup 0..Len(_result)
====
